---- MODULE Spec2Model ----
(***************************************************************************)
(* The modal interaction engine of combat-tracker (src/src/app.rs): the    *)
(* App state, the key-event dispatcher App::read_events, select_creature   *)
(* and numeric_edit, with the parts of tui_textarea::TextArea the          *)
(* dispatcher relies on.                                                   *)
(*                                                                         *)
(* Strings are sequences of character codes (ASCII), Option<T> is the      *)
(* empty sequence (None) or a one-element sequence (Some), Vec indices are *)
(* 0-based as in the source (creature i is creatures[i + 1]).              *)
(***************************************************************************)
EXTENDS Integers, Sequences, FiniteSets, TLC

VARIABLES
    running,            \* App.running
    mode,               \* App.mode (a Mode, with its payload)
    selected_creature,  \* App.selected_creature : Option<usize>
    creatures,          \* App.creatures : Vec<Creature>
    text_area,          \* App.text_area : lines and cursor of the TextArea
    panicked,           \* "no", or what aborted the process: "unwrap" (an unwrap() of
                        \* None, the panic! of numeric_edit) or "overflow" (an overflow check)
    last_key,           \* history: the last event an arm other than `_ => {}` handled, and its mode
    pre_edit,           \* history: the edited field's value when the edit mode was entered
    edited,             \* history: an edit key was handled since the edit mode was entered
    confirmed,          \* history: the numeric mode and field value of an Enter confirm that
                        \* only a re-entry of that mode and an Esc with no edit have followed
    keys                \* history: the number of key events handled so far

vars == <<running, mode, selected_creature, creatures, text_area, panicked,
          last_key, pre_edit, edited, confirmed, keys>>

-----------------------------------------------------------------------------
(* Bounds of the model. *)

MaxKeys == 6          \* a run handles up to this many key events (ignored events aside)

NameChars == {97}           \* characters typed in Rename: 'a'
DigitChars == {49}          \* digits typed in the numeric editors: '1'
NoteChars == {120}          \* characters typed in the notes editor: 'x'

-----------------------------------------------------------------------------
(* Option<T> *)

None == <<>>
Some(x) == <<x>>
IsSome(o) == Len(o) = 1
(* Mutant: the default of a failed parse is 1. *)
unwrap_or_default_One(o) == IF IsSome(o) THEN o[1] ELSE 1

unwrap_or_default(o) == IF IsSome(o) THEN o[1] ELSE 0

(* i32: checked and wrapping arithmetic, computed without leaving the i32 range. *)
I32_MAX == 2147483647
I32_MIN == (-I32_MAX) - 1

add_overflows(a, b) == (b > 0 /\ a > I32_MAX - b) \/ (b < 0 /\ a < I32_MIN - b)
sub_overflows(a, b) == (b > 0 /\ a < I32_MIN + b) \/ (b < 0 /\ a > I32_MAX + b)

wrapping_add(a, b) ==
    IF ~add_overflows(a, b) THEN a + b
    ELSE IF b > 0 THEN ((a - I32_MAX) - 1) + ((b - I32_MAX) - 1)
    ELSE ((a + I32_MAX) + 1) + ((b + I32_MAX) + 1)

wrapping_sub(a, b) ==
    IF ~sub_overflows(a, b) THEN a - b
    ELSE IF b > 0 THEN ((a + I32_MAX) + 1) - ((b - I32_MAX) - 1)
    ELSE ((a - I32_MAX) - 1) - ((b + I32_MAX) + 1)

(* Character codes of the keys the dispatcher names. *)
Ord == ("?" :> 63) @@ ("s" :> 115) @@ ("K" :> 75) @@ ("k" :> 107) @@ ("j" :> 106)
       @@ ("J" :> 74) @@ ("a" :> 97) @@ ("r" :> 114) @@ ("n" :> 110) @@ ("c" :> 99)
       @@ ("d" :> 100) @@ ("h" :> 104) @@ ("i" :> 105) @@ ("-" :> 45) @@ ("+" :> 43)
       @@ ("H" :> 72) @@ ("I" :> 73) @@ ("N" :> 78) @@ ("x" :> 120) @@ ("\n" :> 10)
       @@ ("0" :> 48) @@ ("9" :> 57)

(* crossterm KeyEvent: kind, code (a Char carries its character) and modifiers. *)
Key(c) == [kind |-> "Press", code |-> c, ch |-> 0, mods |-> "NONE"]
Char(c) == [kind |-> "Press", code |-> "Char", ch |-> c, mods |-> "NONE"]
OfKind(k, ev) == [ev EXCEPT !.kind = k]
WithMods(m, ev) == [ev EXCEPT !.mods = m]
is_ascii_digit(ch) == ch >= Ord["0"] /\ ch <= Ord["9"]

-----------------------------------------------------------------------------
(* i32's Display and FromStr, as numeric_edit uses them. *)

RECURSIVE NatStr(_)
NatStr(n) == IF n < 10 THEN <<Ord["0"] + n>>
             ELSE Append(NatStr(n \div 10), Ord["0"] + (n % 10))

(* Mutant: Display drops the sign. *)
to_string_Unsigned(v) ==
    IF v = I32_MIN THEN NatStr(I32_MAX \div 10) \o <<Ord["0"] + 8>>
    ELSE IF v < 0 THEN NatStr(-v)
    ELSE NatStr(v)

to_string(v) ==
    IF v = I32_MIN THEN <<Ord["-"]>> \o NatStr(I32_MAX \div 10) \o <<Ord["0"] + 8>>
    ELSE IF v < 0 THEN <<Ord["-"]>> \o NatStr(-v)
    ELSE NatStr(v)

pop(s) == IF s = <<>> THEN s ELSE SubSeq(s, 1, Len(s) - 1)

(* str::parse::<i32>: digit by digit with checked_mul(10) and checked_add (or *)
(* checked_sub after a '-'); None is the Err of an empty or signless-empty    *)
(* string, of a character that is no digit, and of an overflow.               *)
RECURSIVE parse_digits(_, _)
parse_digits(body, negative) ==
    IF body = <<>> THEN Some(0)
    ELSE LET init == parse_digits(pop(body), negative)
             d == body[Len(body)] - Ord["0"]
         IN  IF ~IsSome(init) \/ ~is_ascii_digit(body[Len(body)]) THEN None
             ELSE IF negative
             THEN IF init[1] < -(I32_MAX \div 10) \/ 10 * init[1] < I32_MIN + d THEN None
                  ELSE Some(10 * init[1] - d)
             ELSE IF init[1] > I32_MAX \div 10 \/ 10 * init[1] > I32_MAX - d THEN None
                  ELSE Some(10 * init[1] + d)

parse(s) ==
    LET signed == s # <<>> /\ s[1] \in {Ord["-"], Ord["+"]}
        body == IF signed THEN Tail(s) ELSE s
    IN  IF body = <<>> THEN None
        ELSE parse_digits(body, signed /\ s[1] = Ord["-"])

-----------------------------------------------------------------------------
(* str::lines, [String]::join("\n") and String's Ord. *)

RECURSIVE Split(_)
Split(s) ==
    IF \A i \in 1..Len(s) : s[i] # Ord["\n"] THEN <<s>>
    ELSE LET i == CHOOSE j \in 1..Len(s) :
                      s[j] = Ord["\n"] /\ \A k \in 1..(j - 1) : s[k] # Ord["\n"]
         IN  <<SubSeq(s, 1, i - 1)>> \o Split(SubSeq(s, i + 1, Len(s)))

lines(s) == LET p == Split(s)
            IN  IF p[Len(p)] = <<>> THEN SubSeq(p, 1, Len(p) - 1) ELSE p

RECURSIVE join(_)
join(ls) == IF ls = <<>> THEN <<>>
            ELSE IF Len(ls) = 1 THEN ls[1]
            ELSE ls[1] \o <<Ord["\n"]>> \o join(Tail(ls))

cmp_int(a, b) == IF a < b THEN "Less" ELSE IF a > b THEN "Greater" ELSE "Equal"

RECURSIVE cmp_str(_, _)
cmp_str(a, b) ==
    IF a = <<>> THEN (IF b = <<>> THEN "Equal" ELSE "Less")
    ELSE IF b = <<>> THEN "Greater"
    ELSE IF a[1] # b[1] THEN cmp_int(a[1], b[1])
    ELSE cmp_str(Tail(a), Tail(b))

-----------------------------------------------------------------------------
(* Creature and its Default. *)

Creature(name, health, notes) ==
    [name |-> name, health |-> health, health_shift |-> None, initiative |-> 0,
     notes |-> notes, notes_cursor_pos |-> <<0, 0>>]

DefaultCreature == Creature(<<>>, 0, <<>>)

(* "Goblin", "Very gobliny"; "Chodlin", "Cousin of Boblin"; "Boblin", "The goblin" *)
TestCreatures ==
    << Creature(<<71, 111, 98, 108, 105, 110>>, 5,
                <<86, 101, 114, 121, 32, 103, 111, 98, 108, 105, 110, 121>>),
       Creature(<<67, 104, 111, 100, 108, 105, 110>>, 4,
                <<67, 111, 117, 115, 105, 110, 32, 111, 102, 32, 66, 111, 98, 108, 105, 110>>),
       Creature(<<66, 111, 98, 108, 105, 110>>, 4,
                <<84, 104, 101, 32, 103, 111, 98, 108, 105, 110>>) >>

HealthShift(dir, mag) == [dir |-> dir, mag |-> mag]

-----------------------------------------------------------------------------
(* tui_textarea::TextArea, as far as the dispatcher uses it. *)

Min(a, b) == IF a < b THEN a ELSE b

new_text_area(ls) ==
    [lines |-> IF ls = <<>> THEN << <<>> >> ELSE ls, cursor |-> <<0, 0>>]

move_cursor_jump(ta, row, col) ==
    LET r == Min(row, Len(ta.lines) - 1)
        c == Min(col, Len(ta.lines[r + 1]))
    IN  [ta EXCEPT !.cursor = <<r, c>>]

insert_char(ta, ch) ==
    LET r == ta.cursor[1]
        c == ta.cursor[2]
        l == ta.lines[r + 1]
    IN  [lines |-> [ta.lines EXCEPT ![r + 1] =
                        SubSeq(l, 1, c) \o <<ch>> \o SubSeq(l, c + 1, Len(l))],
         cursor |-> <<r, c + 1>>]

insert_newline(ta) ==
    LET r == ta.cursor[1]
        c == ta.cursor[2]
        l == ta.lines[r + 1]
    IN  [lines |-> SubSeq(ta.lines, 1, r) \o <<SubSeq(l, 1, c), SubSeq(l, c + 1, Len(l))>>
                   \o SubSeq(ta.lines, r + 2, Len(ta.lines)),
         cursor |-> <<r + 1, 0>>]

delete_char(ta) ==
    LET r == ta.cursor[1]
        c == ta.cursor[2]
        l == ta.lines[r + 1]
    IN  IF c > 0
        THEN [lines |-> [ta.lines EXCEPT ![r + 1] =
                             SubSeq(l, 1, c - 1) \o SubSeq(l, c + 1, Len(l))],
              cursor |-> <<r, c - 1>>]
        ELSE IF r > 0
        THEN [lines |-> SubSeq(ta.lines, 1, r - 1) \o <<ta.lines[r] \o l>>
                        \o SubSeq(ta.lines, r + 2, Len(ta.lines)),
              cursor |-> <<r - 1, Len(ta.lines[r])>>]
        ELSE ta

(* TextArea::input: a Release event converts to the null input; every other *)
(* event is applied by its key code (Enter breaks the line under any        *)
(* modifier).                                                               *)
input(ta, ev) ==
    IF ev.kind = "Release" THEN ta
    ELSE IF ev.code = "Char" THEN insert_char(ta, ev.ch)
    ELSE IF ev.code = "Enter" THEN insert_newline(ta)
    ELSE IF ev.code = "Backspace" THEN delete_char(ta)
    ELSE ta

-----------------------------------------------------------------------------
(* Mode *)

Normal == [tag |-> "Normal"]
Help == [tag |-> "Help"]
Sort == [tag |-> "Sort"]
EditNotes == [tag |-> "EditNotes"]
HealthShiftMode == [tag |-> "HealthShift"]
Meta(selection) == [tag |-> "Meta", selection |-> selection]
Rename(old_name) == [tag |-> "Rename", old |-> old_name]
SetHealth(old_amount) == [tag |-> "SetHealth", old |-> old_amount]
SetInitiative(old_amount) == [tag |-> "SetInitiative", old |-> old_amount]

-----------------------------------------------------------------------------
(* App::new *)

new(init_test_creatures) ==
    /\ running = TRUE
    /\ mode = Normal
    /\ selected_creature = IF init_test_creatures THEN Some(0) ELSE None
    /\ creatures = IF init_test_creatures THEN TestCreatures ELSE <<>>
    /\ text_area = new_text_area(<<>>)

Init ==
    /\ \E init_test_creatures \in BOOLEAN : new(init_test_creatures)
    /\ panicked = "no"
    /\ last_key = None
    /\ pre_edit = None
    /\ edited = FALSE
    /\ confirmed = None
    /\ keys = 0

-----------------------------------------------------------------------------
(* App::hovered_creature, App::select_creature *)

get(crs, index) == IF index < Len(crs) THEN Some(crs[index + 1]) ELSE None

hovered_creature ==
    IF IsSome(selected_creature) THEN get(creatures, selected_creature[1]) ELSE None

(* The text area select_creature(index) leaves, on the roster crs. *)
select_creature_text(crs, index, ta) ==
    IF IsSome(get(crs, index))
    THEN LET creature == crs[index + 1]
         IN  move_cursor_jump(new_text_area(lines(creature.notes)),
                              creature.notes_cursor_pos[1], creature.notes_cursor_pos[2])
    ELSE ta

select_creature(crs, index) ==
    /\ selected_creature' = Some(index)
    /\ text_area' = select_creature_text(crs, index, text_area)

saturating_sub(a, b) == IF a > b THEN a - b ELSE 0

(* Mutant: the first creature of the roster is the one replaced. *)
set_hovered_First(c) == [creatures EXCEPT ![1] = c]

(* The hovered creature replaced by c. *)
set_hovered(c) == [creatures EXCEPT ![selected_creature[1] + 1] = c]

-----------------------------------------------------------------------------
(* The event loop: App::run reads events while running; a panic ends it. *)

Reads == running /\ panicked = "no" /\ keys < MaxKeys

Handles(tag, kind, ev) ==
    /\ Reads
    /\ mode.tag = tag
    /\ ev.kind = kind

(* The field of creature c that the editor of mode tag edits. *)
FieldUnderEdit(tag, c) ==
    IF tag = "Rename" THEN c.name
    ELSE IF tag = "EditNotes" THEN c.notes
    ELSE IF tag = "SetInitiative" THEN c.initiative
    ELSE c.health

(* The key that enters the numeric editor of mode tag from Normal. *)
EntryKey(tag) == Char(IF tag = "SetHealth" THEN Ord["h"] ELSE Ord["i"])

(* History of a handled event: an Enter in SetHealth or SetInitiative records *)
(* the confirmed value; the record lasts through the re-entry of the same     *)
(* mode right after it and through an Esc there that no edit key preceded.    *)
Hist(ev) ==
    /\ last_key' = Some([mode |-> mode.tag, ev |-> ev])
    /\ keys' = keys + 1
    /\ confirmed' =
           IF mode.tag \in {"SetHealth", "SetInitiative"} /\ ev = Key("Enter")
                  /\ IsSome(hovered_creature)
           THEN Some([mode |-> mode.tag,
                      value |-> FieldUnderEdit(mode.tag,
                                               creatures'[selected_creature[1] + 1])])
           ELSE IF /\ IsSome(confirmed) /\ IsSome(hovered_creature)
                   /\ \/ /\ mode.tag = "Normal"
                         /\ last_key = Some([mode |-> confirmed[1].mode, ev |-> Key("Enter")])
                         /\ ev = EntryKey(confirmed[1].mode)
                      \/ /\ mode.tag = confirmed[1].mode
                         /\ ev = Key("Esc")
           THEN confirmed
           ELSE None

(* History of an event that falls to a `_ => {}` arm. *)
Ignored == UNCHANGED <<last_key, keys, confirmed>>

(* History of a Normal-mode key that enters no edit mode. *)
NoEdit == pre_edit' = None /\ edited' = FALSE

(* History of a Normal-mode key that enters an edit mode on the value v. *)
EnterEdit(v) == pre_edit' = Some(v) /\ edited' = FALSE

-----------------------------------------------------------------------------
(* read_events: an event that is no key event returns at once. *)

OtherEvent ==
    /\ Reads
    /\ UNCHANGED vars

(* read_events: a key event that is no press, in a mode other than EditNotes. *)
NonPress(ev) ==
    /\ Reads
    /\ mode.tag # "EditNotes"
    /\ ev.kind # "Press"
    /\ UNCHANGED vars

-----------------------------------------------------------------------------
(* read_events, (Mode::Normal, KeyEventKind::Press) *)

(* Mutant: Esc in Normal opens ConfirmQuit with the quit option selected. *)
NormalEsc_QuitSelected ==
    /\ Handles("Normal", "Press", Key("Esc"))
    /\ mode' = Meta(1)
    /\ NoEdit /\ Hist(Key("Esc"))
    /\ UNCHANGED <<running, selected_creature, creatures, text_area, panicked>>

NormalEsc ==
    /\ Handles("Normal", "Press", Key("Esc"))
    /\ mode' = Meta(0)
    /\ NoEdit /\ Hist(Key("Esc"))
    /\ UNCHANGED <<running, selected_creature, creatures, text_area, panicked>>

NormalHelp ==
    /\ Handles("Normal", "Press", Char(Ord["?"]))
    /\ mode' = Help
    /\ NoEdit /\ Hist(Char(Ord["?"]))
    /\ UNCHANGED <<running, selected_creature, creatures, text_area, panicked>>

NormalSort ==
    /\ Handles("Normal", "Press", Char(Ord["s"]))
    /\ mode' = Sort
    /\ NoEdit /\ Hist(Char(Ord["s"]))
    /\ UNCHANGED <<running, selected_creature, creatures, text_area, panicked>>

NormalFirst ==
    /\ Handles("Normal", "Press", Char(Ord["K"]))
    /\ select_creature(creatures, 0)
    /\ NoEdit /\ Hist(Char(Ord["K"]))
    /\ UNCHANGED <<running, mode, creatures, panicked>>

(* Mutant: the previous key stops at the first creature instead of wrapping. *)
NormalPrevious_NoWrap ==
    /\ Handles("Normal", "Press", Char(Ord["k"]))
    /\ select_creature(creatures, saturating_sub(unwrap_or_default(selected_creature), 1))
    /\ NoEdit /\ Hist(Char(Ord["k"]))
    /\ UNCHANGED <<running, mode, creatures, panicked>>

NormalPrevious ==
    /\ Handles("Normal", "Press", Char(Ord["k"]))
    /\ LET curr == unwrap_or_default(selected_creature)
       IN  select_creature(creatures,
                           IF curr = 0 THEN saturating_sub(Len(creatures), 1) ELSE curr - 1)
    /\ NoEdit /\ Hist(Char(Ord["k"]))
    /\ UNCHANGED <<running, mode, creatures, panicked>>

NormalNext ==
    /\ Handles("Normal", "Press", Char(Ord["j"]))
    /\ select_creature(creatures,
                       IF creatures = <<>> THEN 0
                       ELSE (IF IsSome(selected_creature) THEN selected_creature[1] + 1 ELSE 0)
                                % Len(creatures))
    /\ NoEdit /\ Hist(Char(Ord["j"]))
    /\ UNCHANGED <<running, mode, creatures, panicked>>

(* Mutant: the last key selects the index one past the end. *)
NormalLast_PastEnd ==
    /\ Handles("Normal", "Press", Char(Ord["J"]))
    /\ select_creature(creatures, Len(creatures))
    /\ NoEdit /\ Hist(Char(Ord["J"]))
    /\ UNCHANGED <<running, mode, creatures, panicked>>

NormalLast ==
    /\ Handles("Normal", "Press", Char(Ord["J"]))
    /\ select_creature(creatures, saturating_sub(Len(creatures), 1))
    /\ NoEdit /\ Hist(Char(Ord["J"]))
    /\ UNCHANGED <<running, mode, creatures, panicked>>

(* Mutant: the add key appends the creature and leaves the selection where it was. *)
NormalAdd_NoSelect ==
    /\ Handles("Normal", "Press", Char(Ord["a"]))
    /\ creatures' = Append(creatures, DefaultCreature)
    /\ mode' = Rename(<<>>)
    /\ EnterEdit(<<>>) /\ Hist(Char(Ord["a"]))
    /\ UNCHANGED <<running, selected_creature, text_area, panicked>>

NormalAdd ==
    /\ Handles("Normal", "Press", Char(Ord["a"]))
    /\ creatures' = Append(creatures, DefaultCreature)
    /\ select_creature(creatures', Len(creatures') - 1)
    /\ mode' = Rename(<<>>)
    /\ EnterEdit(<<>>) /\ Hist(Char(Ord["a"]))
    /\ UNCHANGED <<running, panicked>>

(* Mutant: the rename key enters Rename without looking for a hovered creature. *)
NormalRename_Unguarded ==
    /\ Handles("Normal", "Press", Char(Ord["r"]))
    /\ mode' = Rename(<<>>) /\ EnterEdit(<<>>)
    /\ Hist(Char(Ord["r"]))
    /\ UNCHANGED <<running, selected_creature, creatures, text_area, panicked>>

NormalRename ==
    /\ Handles("Normal", "Press", Char(Ord["r"]))
    /\ IF IsSome(hovered_creature)
       THEN mode' = Rename(hovered_creature[1].name) /\ EnterEdit(hovered_creature[1].name)
       ELSE UNCHANGED mode /\ NoEdit
    /\ Hist(Char(Ord["r"]))
    /\ UNCHANGED <<running, selected_creature, creatures, text_area, panicked>>

NormalNotes ==
    /\ Handles("Normal", "Press", Char(Ord["n"]))
    /\ IF IsSome(hovered_creature)
       THEN mode' = EditNotes /\ EnterEdit(hovered_creature[1].notes)
       ELSE UNCHANGED mode /\ NoEdit
    /\ Hist(Char(Ord["n"]))
    /\ UNCHANGED <<running, selected_creature, creatures, text_area, panicked>>

insert(crs, index, c) == SubSeq(crs, 1, index) \o <<c>> \o SubSeq(crs, index + 1, Len(crs))

remove(crs, index) == SubSeq(crs, 1, index) \o SubSeq(crs, index + 2, Len(crs))

(* Mutant: the duplicate is pushed to the end of the roster. *)
NormalDuplicate_Append ==
    /\ Handles("Normal", "Press", Char(Ord["c"]))
    /\ IF IsSome(hovered_creature)
       THEN creatures' = Append(creatures, hovered_creature[1])
       ELSE UNCHANGED creatures
    /\ NoEdit /\ Hist(Char(Ord["c"]))
    /\ UNCHANGED <<running, mode, selected_creature, text_area, panicked>>

NormalDuplicate ==
    /\ Handles("Normal", "Press", Char(Ord["c"]))
    /\ IF IsSome(hovered_creature)
       THEN LET index == selected_creature[1]
                duplicate == hovered_creature[1]
            IN  creatures' = insert(creatures, index + 1, duplicate)
       ELSE UNCHANGED creatures
    /\ NoEdit /\ Hist(Char(Ord["c"]))
    /\ UNCHANGED <<running, mode, selected_creature, text_area, panicked>>

(* Mutant: the delete key always re-selects the deleted index. *)
NormalDelete_Reselect ==
    /\ Handles("Normal", "Press", Char(Ord["d"]))
    /\ IF IsSome(hovered_creature)
       THEN LET index == selected_creature[1]
            IN  /\ creatures' = remove(creatures, index)
                /\ IF creatures' = <<>>
                   THEN /\ selected_creature' = None
                        /\ text_area' = new_text_area(<<>>)
                   ELSE select_creature(creatures', index)
       ELSE UNCHANGED <<creatures, selected_creature, text_area>>
    /\ NoEdit /\ Hist(Char(Ord["d"]))
    /\ UNCHANGED <<running, mode, panicked>>

NormalDelete ==
    /\ Handles("Normal", "Press", Char(Ord["d"]))
    /\ IF IsSome(hovered_creature)
       THEN LET index == selected_creature[1]
            IN  /\ creatures' = remove(creatures, index)
                /\ IF creatures' = <<>>
                   THEN /\ selected_creature' = None
                        /\ text_area' = new_text_area(<<>>)
                   ELSE IF Len(creatures') = index
                   THEN select_creature(creatures', Len(creatures') - 1)
                   ELSE select_creature(creatures', index)
       ELSE UNCHANGED <<creatures, selected_creature, text_area>>
    /\ NoEdit /\ Hist(Char(Ord["d"]))
    /\ UNCHANGED <<running, mode, panicked>>

(* Mutant: the health key snapshots 0 instead of the hovered creature's health. *)
NormalHealth_ZeroSnapshot ==
    /\ Handles("Normal", "Press", Char(Ord["h"]))
    /\ IF IsSome(hovered_creature)
       THEN mode' = SetHealth(0)
            /\ EnterEdit(hovered_creature[1].health)
       ELSE UNCHANGED mode /\ NoEdit
    /\ Hist(Char(Ord["h"]))
    /\ UNCHANGED <<running, selected_creature, creatures, text_area, panicked>>

NormalHealth ==
    /\ Handles("Normal", "Press", Char(Ord["h"]))
    /\ IF IsSome(hovered_creature)
       THEN mode' = SetHealth(hovered_creature[1].health)
            /\ EnterEdit(hovered_creature[1].health)
       ELSE UNCHANGED mode /\ NoEdit
    /\ Hist(Char(Ord["h"]))
    /\ UNCHANGED <<running, selected_creature, creatures, text_area, panicked>>

NormalInitiative ==
    /\ Handles("Normal", "Press", Char(Ord["i"]))
    /\ IF IsSome(hovered_creature)
       THEN mode' = SetInitiative(hovered_creature[1].initiative)
            /\ EnterEdit(hovered_creature[1].initiative)
       ELSE UNCHANGED mode /\ NoEdit
    /\ Hist(Char(Ord["i"]))
    /\ UNCHANGED <<running, selected_creature, creatures, text_area, panicked>>

(* '-' starts a Decrease(0), '+' an Increase(0), on the hovered creature. *)
NormalShift(dir) ==
    LET ev == Char(IF dir = "Decrease" THEN Ord["-"] ELSE Ord["+"]) IN
    /\ Handles("Normal", "Press", ev)
    /\ IF IsSome(hovered_creature)
       THEN /\ creatures' = set_hovered([hovered_creature[1] EXCEPT
                                            !.health_shift = Some(HealthShift(dir, 0))])
            /\ mode' = HealthShiftMode
            /\ EnterEdit(hovered_creature[1].health)
       ELSE UNCHANGED <<creatures, mode>> /\ NoEdit
    /\ Hist(ev)
    /\ UNCHANGED <<running, selected_creature, text_area, panicked>>

(* Any other key in Normal: the `_ => {}` arm. *)
NormalOther(ev) ==
    /\ Handles("Normal", "Press", ev)
    /\ UNCHANGED vars

-----------------------------------------------------------------------------
(* read_events, (Mode::Meta(selection), KeyEventKind::Press) *)

(* Mutant: Enter quits whichever option is selected. *)
MetaKey_EnterQuits(ev) ==
    /\ Handles("Meta", "Press", ev)
    /\ IF ev.code = "Esc" THEN mode' = Normal /\ UNCHANGED running
       ELSE IF ev.code = "Enter" THEN running' = FALSE /\ UNCHANGED mode
       ELSE IF ev.code = "Char" /\ ev.ch \in {Ord["k"], Ord["j"]}
       THEN mode' = Meta(1 - mode.selection) /\ UNCHANGED running
       ELSE UNCHANGED <<mode, running>>
    /\ IF ev.code \in {"Esc", "Enter"} \/ (ev.code = "Char" /\ ev.ch \in {Ord["k"], Ord["j"]})
       THEN Hist(ev) ELSE Ignored
    /\ UNCHANGED <<selected_creature, creatures, text_area, panicked, pre_edit, edited>>

MetaKey(ev) ==
    /\ Handles("Meta", "Press", ev)
    /\ IF ev.code = "Esc" THEN mode' = Normal /\ UNCHANGED running
       ELSE IF ev.code = "Enter" /\ mode.selection = 0 THEN mode' = Normal /\ UNCHANGED running
       ELSE IF ev.code = "Enter" /\ mode.selection = 1 THEN running' = FALSE /\ UNCHANGED mode
       ELSE IF ev.code = "Char" /\ ev.ch \in {Ord["k"], Ord["j"]}
       THEN mode' = Meta(1 - mode.selection) /\ UNCHANGED running
       ELSE UNCHANGED <<mode, running>>
    /\ IF ev.code \in {"Esc", "Enter"} \/ (ev.code = "Char" /\ ev.ch \in {Ord["k"], Ord["j"]})
       THEN Hist(ev) ELSE Ignored
    /\ UNCHANGED <<selected_creature, creatures, text_area, panicked, pre_edit, edited>>

(* read_events, (Mode::Help, KeyEventKind::Press) *)
(* Mutant: Help has no way out. *)
HelpKey_NoExit(ev) ==
    /\ Handles("Help", "Press", ev)
    /\ UNCHANGED mode
    /\ IF ev.code = "Esc" THEN Hist(ev) ELSE Ignored
    /\ UNCHANGED <<running, selected_creature, creatures, text_area, panicked,
                   pre_edit, edited>>

HelpKey(ev) ==
    /\ Handles("Help", "Press", ev)
    /\ IF ev.code = "Esc" THEN mode' = Normal ELSE UNCHANGED mode
    /\ IF ev.code = "Esc" THEN Hist(ev) ELSE Ignored
    /\ UNCHANGED <<running, selected_creature, creatures, text_area, panicked,
                   pre_edit, edited>>

-----------------------------------------------------------------------------
(* An unwrap() of None, the panic! of numeric_edit, or a failed overflow check  *)
(* aborts the process where it stands.                                          *)

Panic(why) ==
    panicked' = why /\ UNCHANGED <<running, mode, selected_creature, creatures, text_area>>

IsEditKey(ev) == ev.code = "Backspace" \/ ev.code = "Char"

(* read_events, (Mode::Rename(old_name), KeyEventKind::Press) *)
(* Mutant: Esc keeps the edited name instead of the snapshot. *)
renamed_NoRevert(name, old_name, ev) ==
    IF ev.code = "Backspace" THEN pop(name)
    ELSE IF ev.code = "Char" THEN Append(name, ev.ch)
    ELSE name

renamed(name, old_name, ev) ==
    IF ev.code = "Esc" THEN old_name
    ELSE IF ev.code = "Backspace" THEN pop(name)
    ELSE IF ev.code = "Char" THEN Append(name, ev.ch)
    ELSE name

RenameKey(ev) ==
    /\ Handles("Rename", "Press", ev)
    /\ IF IsSome(hovered_creature)
       THEN /\ mode' = IF ev.code \in {"Enter", "Esc"} THEN Normal ELSE mode
            /\ creatures' = set_hovered([hovered_creature[1] EXCEPT
                                !.name = renamed(hovered_creature[1].name, mode.old, ev)])
            /\ UNCHANGED <<running, selected_creature, text_area, panicked>>
       ELSE Panic("unwrap")
    /\ edited' = (edited \/ IsEditKey(ev))
    /\ IF ev.code \in {"Enter", "Esc"} \/ IsEditKey(ev)
       THEN Hist(ev) ELSE Ignored
    /\ UNCHANGED pre_edit

(* Mutant: an Esc event of any kind stores the notes and leaves. *)
EditNotesKey_AnyKindEsc(ev) ==
    /\ Reads
    /\ mode.tag = "EditNotes"
    /\ IF ev.code = "Esc"
       THEN IF IsSome(hovered_creature)
            THEN /\ creatures' = set_hovered([hovered_creature[1] EXCEPT
                                    !.notes = join(text_area.lines),
                                    !.notes_cursor_pos = text_area.cursor])
                 /\ mode' = Normal
                 /\ UNCHANGED <<running, selected_creature, text_area, panicked>>
            ELSE Panic("unwrap")
       ELSE /\ text_area' = input(text_area, ev)
            /\ UNCHANGED <<running, mode, selected_creature, creatures, panicked>>
    /\ edited' = (edited \/ text_area' # text_area)
    /\ IF ev.kind = "Release" THEN Ignored ELSE Hist(ev)
    /\ UNCHANGED pre_edit

(* Mutant: an Enter press without modifier stores the notes and leaves, as Esc does. *)
EditNotesKey_EnterLeaves(ev) ==
    /\ Reads
    /\ mode.tag = "EditNotes"
    /\ IF ev.code \in {"Esc", "Enter"} /\ ev.kind = "Press" /\ ev.mods = "NONE"
       THEN IF IsSome(hovered_creature)
            THEN /\ creatures' = set_hovered([hovered_creature[1] EXCEPT
                                    !.notes = join(text_area.lines),
                                    !.notes_cursor_pos = text_area.cursor])
                 /\ mode' = Normal
                 /\ UNCHANGED <<running, selected_creature, text_area, panicked>>
            ELSE Panic("unwrap")
       ELSE /\ text_area' = input(text_area, ev)
            /\ UNCHANGED <<running, mode, selected_creature, creatures, panicked>>
    /\ edited' = (edited \/ text_area' # text_area)
    /\ IF ev.kind = "Release" THEN Ignored ELSE Hist(ev)
    /\ UNCHANGED pre_edit

(* read_events, (Mode::EditNotes, _): every key event, of any kind *)
EditNotesKey(ev) ==
    /\ Reads
    /\ mode.tag = "EditNotes"
    /\ IF ev.code = "Esc" /\ ev.kind = "Press"
       THEN IF IsSome(hovered_creature)
            THEN /\ creatures' = set_hovered([hovered_creature[1] EXCEPT
                                    !.notes = join(text_area.lines),
                                    !.notes_cursor_pos = text_area.cursor])
                 /\ mode' = Normal
                 /\ UNCHANGED <<running, selected_creature, text_area, panicked>>
            ELSE Panic("unwrap")
       ELSE /\ text_area' = input(text_area, ev)
            /\ UNCHANGED <<running, mode, selected_creature, creatures, panicked>>
    /\ edited' = (edited \/ text_area' # text_area)
    /\ IF ev.kind = "Release" THEN Ignored ELSE Hist(ev)
    /\ UNCHANGED pre_edit

-----------------------------------------------------------------------------
(* The closures read_events hands to numeric_edit, by the mode that hands  *)
(* them: "SetHealth", "SetInitiative", "HealthShift".                      *)

(* The u32 magnitude is held as the i32 of the same 32 bits, so that the casts *)
(* `mag as i32` and `value as u32` both keep the value.                       *)
as_u32(v) == v
as_i32(v) == v

(* extract; None where the closure's health_shift.unwrap() panics. *)
extract(tag, creature) ==
    IF tag = "SetHealth" THEN Some(creature.health)
    ELSE IF tag = "SetInitiative" THEN Some(creature.initiative)
    ELSE IF IsSome(creature.health_shift) THEN Some(as_i32(creature.health_shift[1].mag))
    ELSE None

(* Mutant: the digits of a shift are written to the health itself. *)
update_ShiftToHealth(tag, creature, value) ==
    IF tag = "SetInitiative" THEN [creature EXCEPT !.initiative = value]
    ELSE [creature EXCEPT !.health = value]

update(tag, creature, value) ==
    IF tag = "SetHealth" THEN [creature EXCEPT !.health = value]
    ELSE IF tag = "SetInitiative" THEN [creature EXCEPT !.initiative = value]
    ELSE [creature EXCEPT
             !.health_shift = Some(HealthShift(creature.health_shift[1].dir, as_u32(value)))]

(* Mutant: cancel leaves the pending shift in place. *)
revert_KeepShift(tag, old, creature) ==
    IF tag = "SetHealth" THEN [creature EXCEPT !.health = old]
    ELSE IF tag = "SetInitiative" THEN [creature EXCEPT !.initiative = old]
    ELSE creature

(* revert; old is the payload of SetHealth / SetInitiative. *)
revert(tag, old, creature) ==
    IF tag = "SetHealth" THEN [creature EXCEPT !.health = old]
    ELSE IF tag = "SetInitiative" THEN [creature EXCEPT !.initiative = old]
    ELSE [creature EXCEPT !.health_shift = None]

shift_overflows(creature) ==
    IF creature.health_shift[1].dir = "Increase"
    THEN add_overflows(creature.health, as_i32(creature.health_shift[1].mag))
    ELSE sub_overflows(creature.health, as_i32(creature.health_shift[1].mag))

shifted(creature) ==
    IF creature.health_shift[1].dir = "Increase"
    THEN wrapping_add(creature.health, as_i32(creature.health_shift[1].mag))
    ELSE wrapping_sub(creature.health, as_i32(creature.health_shift[1].mag))

(* commit: the set of its outcomes, None being the panic of a failed overflow *)
(* check. `+=` / `-=` on i32 give the sum when it fits; otherwise the check   *)
(* panics (debug build) or the sum wraps (release build).                     *)
commit(tag, creature) ==
    IF tag \in {"SetHealth", "SetInitiative"} THEN {Some(creature)}
    ELSE LET applied == Some([creature EXCEPT !.health = shifted(creature),
                                              !.health_shift = None])
         IN  IF shift_overflows(creature) THEN {None, applied} ELSE {applied}

-----------------------------------------------------------------------------
(* App::numeric_edit, with the closures of mode tag. *)

edit_digits(value, ev) ==
    IF ev.code = "Backspace" THEN pop(to_string(value)) ELSE Append(to_string(value), ev.ch)

IsNumericEditKey(ev) == ev.code = "Backspace" \/ (ev.code = "Char" /\ is_ascii_digit(ev.ch))

numeric_edit(tag, old, ev) ==
    IF ~IsSome(hovered_creature) THEN Panic("unwrap")
    ELSE LET creature == hovered_creature[1]
             value == extract(tag, creature)
         IN  IF ~IsSome(value) THEN Panic("unwrap")
             ELSE IF ev.code = "Enter"
             THEN \E done \in commit(tag, creature) :
                      IF IsSome(done)
                      THEN /\ creatures' = set_hovered(done[1])
                           /\ mode' = Normal
                           /\ UNCHANGED <<running, selected_creature, text_area, panicked>>
                      ELSE Panic("overflow")
             ELSE IF ev.code = "Esc"
             THEN /\ creatures' = set_hovered(revert(tag, old, creature))
                  /\ mode' = Normal
                  /\ UNCHANGED <<running, selected_creature, text_area, panicked>>
             ELSE IF IsNumericEditKey(ev)
             THEN /\ creatures' = set_hovered(update(tag, creature,
                                      unwrap_or_default(parse(edit_digits(value[1], ev)))))
                  /\ UNCHANGED <<running, mode, selected_creature, text_area, panicked>>
             ELSE UNCHANGED <<running, mode, selected_creature, creatures, text_area, panicked>>

NumericHist(ev) ==
    /\ edited' = (edited \/ IsNumericEditKey(ev))
    /\ IF ev.code \in {"Enter", "Esc"} \/ IsNumericEditKey(ev)
       THEN Hist(ev) ELSE Ignored
    /\ UNCHANGED pre_edit

(* read_events, (Mode::SetHealth(old_amount), KeyEventKind::Press) *)
SetHealthKey(ev) ==
    /\ Handles("SetHealth", "Press", ev)
    /\ numeric_edit("SetHealth", mode.old, ev)
    /\ NumericHist(ev)

(* read_events, (Mode::SetInitiative(old_amount), KeyEventKind::Press) *)
SetInitiativeKey(ev) ==
    /\ Handles("SetInitiative", "Press", ev)
    /\ numeric_edit("SetInitiative", mode.old, ev)
    /\ NumericHist(ev)

(* read_events, (Mode::HealthShift, KeyEventKind::Press) *)
HealthShiftKey(ev) ==
    /\ Handles("HealthShift", "Press", ev)
    /\ numeric_edit("HealthShift", 0, ev)
    /\ NumericHist(ev)

-----------------------------------------------------------------------------
(* read_events, (Mode::Sort, KeyEventKind::Press): slice::sort_by, a stable sort, *)
(* under the comparator of the axis key.                                        *)

SortAxes == {Ord["i"], Ord["I"], Ord["h"], Ord["H"], Ord["n"], Ord["N"]}

(* Mutant: the uppercase keys compare as the lowercase ones do. *)
compare_NoReverse(axis, x, y) ==
    IF axis \in {Ord["i"], Ord["I"]} THEN cmp_int(x.initiative, y.initiative)
    ELSE IF axis \in {Ord["h"], Ord["H"]} THEN cmp_int(x.health, y.health)
    ELSE cmp_str(x.name, y.name)

compare(axis, x, y) ==
    IF axis = Ord["i"] THEN cmp_int(x.initiative, y.initiative)
    ELSE IF axis = Ord["I"] THEN cmp_int(y.initiative, x.initiative)
    ELSE IF axis = Ord["h"] THEN cmp_int(x.health, y.health)
    ELSE IF axis = Ord["H"] THEN cmp_int(y.health, x.health)
    ELSE IF axis = Ord["n"] THEN cmp_str(x.name, y.name)
    ELSE cmp_str(y.name, x.name)

(* Mutant: x placed in front of the elements it compares equal to. *)
insert_sorted_Unstable(v, x, axis) ==
    LET notless == {j \in 1..Len(v) : compare(axis, v[j], x) # "Less"}
        at == IF notless = {} THEN Len(v)
              ELSE (CHOOSE j \in notless : \A k \in notless : j <= k) - 1
    IN  insert(v, at, x)

(* x placed into the sorted v behind every element that is not greater. *)
insert_sorted(v, x, axis) ==
    LET greater == {j \in 1..Len(v) : compare(axis, v[j], x) = "Greater"}
        at == IF greater = {} THEN Len(v)
              ELSE (CHOOSE j \in greater : \A k \in greater : j <= k) - 1
    IN  insert(v, at, x)

RECURSIVE sort_by(_, _)
sort_by(v, axis) ==
    IF v = <<>> THEN v ELSE insert_sorted(sort_by(pop(v), axis), v[Len(v)], axis)

SortKey(ev) ==
    /\ Handles("Sort", "Press", ev)
    /\ IF ev.code = "Esc" THEN mode' = Normal /\ UNCHANGED creatures
       ELSE IF ev.code = "Char" /\ ev.ch \in SortAxes
       THEN creatures' = sort_by(creatures, ev.ch) /\ mode' = Normal
       ELSE UNCHANGED <<mode, creatures>>
    /\ IF ev.code = "Esc" \/ (ev.code = "Char" /\ ev.ch \in SortAxes) THEN Hist(ev) ELSE Ignored
    /\ UNCHANGED <<running, selected_creature, text_area, panicked, pre_edit, edited>>

-----------------------------------------------------------------------------
(* The key events explored in each mode. *)

OtherChar == Char(Ord["x"])
NormalOtherKeys == {Key("Enter"), OtherChar}
MetaKeys == {Key("Esc"), Key("Enter"), Char(Ord["j"]), Char(Ord["k"]), OtherChar}
HelpKeys == {Key("Esc"), Key("Enter"), OtherChar}
SortKeys == {Key("Esc"), Key("Enter"), OtherChar} \cup {Char(c) : c \in SortAxes}
RenameKeys == {Key("Esc"), Key("Enter"), Key("Backspace"), Key("Tab")}
                  \cup {Char(c) : c \in NameChars}
NumericKeys == {Key("Esc"), Key("Enter"), Key("Backspace"), Key("Tab"), OtherChar}
                   \cup {Char(c) : c \in DigitChars}
NotesInputs == {Key("Enter"), WithMods("ALT", Key("Enter")), Key("Backspace")}
                   \cup {Char(c) : c \in NoteChars}
NotesKeys == {Key("Esc"), OfKind("Release", Key("Esc")), OfKind("Repeat", Key("Esc"))}
                 \cup NotesInputs
                 \cup {OfKind("Release", ev) : ev \in NotesInputs}
                 \cup {OfKind("Repeat", Char(c)) : c \in NoteChars}
NonPressKeys == {OfKind("Release", Key("Esc")), OfKind("Repeat", Key("Enter")),
                 OfKind("Repeat", Char(Ord["d"]))}

Next ==
    \/ OtherEvent
    \/ \E ev \in NonPressKeys : NonPress(ev)
    \/ NormalEsc
    \/ NormalHelp
    \/ NormalSort
    \/ NormalFirst
    \/ NormalPrevious
    \/ NormalNext
    \/ NormalLast
    \/ NormalAdd
    \/ NormalRename
    \/ NormalNotes
    \/ NormalDuplicate
    \/ NormalDelete
    \/ NormalHealth
    \/ NormalInitiative
    \/ \E dir \in {"Decrease", "Increase"} : NormalShift(dir)
    \/ \E ev \in NormalOtherKeys : NormalOther(ev)
    \/ \E ev \in MetaKeys : MetaKey(ev)
    \/ \E ev \in HelpKeys : HelpKey(ev)
    \/ \E ev \in RenameKeys : RenameKey(ev)
    \/ \E ev \in NotesKeys : EditNotesKey(ev)
    \/ \E ev \in NumericKeys : SetHealthKey(ev)
    \/ \E ev \in NumericKeys : SetInitiativeKey(ev)
    \/ \E ev \in NumericKeys : HealthShiftKey(ev)
    \/ \E ev \in SortKeys : SortKey(ev)

Spec == Init /\ [][Next]_vars

-----------------------------------------------------------------------------
(* The numeric editors on their own, over the whole i32 range: one creature *)
(* whose health and initiative the operator has typed in SetHealth and      *)
(* SetInitiative or reached by shifts, hovered in Normal, and the keys of   *)
(* the three numeric modes.                                                 *)

HealthValues == {0, 5, -5, 214748364, -214748364, I32_MAX}
WideDigits == {Ord["0"] + d : d \in {1, 2, 3, 8}}
WideNumericKeys == {Key("Esc"), Key("Enter"), Key("Backspace")}
                       \cup {Char(c) : c \in WideDigits}

InitNumeric ==
    /\ \E health \in HealthValues :
           /\ creatures = <<[Creature(<<>>, health, <<>>) EXCEPT !.initiative = health]>>
           /\ selected_creature = Some(0)
           /\ text_area = select_creature_text(creatures, 0, new_text_area(<<>>))
    /\ running = TRUE
    /\ mode = Normal
    /\ panicked = "no"
    /\ last_key = None
    /\ pre_edit = None
    /\ edited = FALSE
    /\ confirmed = None
    /\ keys = 0

NextNumeric ==
    \/ NormalHealth
    \/ NormalInitiative
    \/ \E dir \in {"Decrease", "Increase"} : NormalShift(dir)
    \/ \E ev \in WideNumericKeys : SetHealthKey(ev)
    \/ \E ev \in WideNumericKeys : SetInitiativeKey(ev)
    \/ \E ev \in WideNumericKeys : HealthShiftKey(ev)

SpecNumeric == InitNumeric /\ [][NextNumeric]_vars

-----------------------------------------------------------------------------
(* Vocabulary of the properties. *)

EditModes == {"Rename", "EditNotes", "SetHealth", "SetInitiative", "HealthShift"}
CancelModes == {"Rename", "SetHealth", "SetInitiative", "HealthShift"}

(* The last handled event was ev, handled in mode tag. *)
LastWas(tag, ev) == last_key = Some([mode |-> tag, ev |-> ev])

(* This step handles the event ev in mode tag. *)
Pressed(tag, ev) == keys' = keys + 1 /\ last_key' = Some([mode |-> tag, ev |-> ev])

SelectionValid ==
    IsSome(selected_creature) /\ selected_creature[1] \in 0..(Len(creatures) - 1)

-----------------------------------------------------------------------------
(* C1: in every reachable state the selection is none if and only if the   *)
(* roster is empty, and otherwise it is an index in 0..len-1.               *)
C1_SelectionNoneIffEmpty ==
    IF creatures = <<>> THEN selected_creature = None ELSE SelectionValid

-----------------------------------------------------------------------------
(* C2: whenever the mode is an edit mode the selection is a valid roster    *)
(* index, in HealthShift the hovered creature's pending shift is present,   *)
(* no unwrap()/panic! of a handler is reached, and an edit key (rename,     *)
(* notes, health, initiative, '+', '-') pressed in Normal with no hovered   *)
(* creature leaves the mode Normal.                                         *)
EditEntryKeys == {Char(Ord[c]) : c \in {"r", "n", "h", "i", "+", "-"}}

C2_EditModesHaveHovered ==
    /\ panicked # "unwrap"
    /\ mode.tag \in EditModes => SelectionValid /\ IsSome(hovered_creature)
    /\ mode.tag = "HealthShift" => IsSome(hovered_creature[1].health_shift)
    /\ (\E ev \in EditEntryKeys : LastWas("Normal", ev)) /\ ~IsSome(hovered_creature)
           => mode.tag = "Normal"

(* A digit was typed into the pending shift of a hovered creature. *)
C2_Witness ==
    /\ mode.tag = "HealthShift"
    /\ LastWas("HealthShift", Char(Ord["0"] + 1))
    /\ IsSome(hovered_creature)
    /\ hovered_creature[1].health_shift = Some(HealthShift("Decrease", 1))

-----------------------------------------------------------------------------
(* C3: after the cancel key (Esc) ends Rename, SetHealth, SetInitiative or  *)
(* HealthShift, whatever edit keys came before it, the mode is Normal and   *)
(* the edited field (name, health, initiative, health) of the hovered       *)
(* creature equals its value at the moment the mode was entered.            *)
C3_CancelRestores ==
    \A tag \in CancelModes :
        LastWas(tag, Key("Esc")) =>
            /\ mode.tag = "Normal"
            /\ panicked = "no"
            /\ IsSome(pre_edit) /\ IsSome(hovered_creature)
            /\ FieldUnderEdit(tag, hovered_creature[1]) = pre_edit[1]

(* A rename of "Goblin" was cancelled after edit keys. *)
C3_Witness ==
    /\ LastWas("Rename", Key("Esc"))
    /\ edited
    /\ pre_edit = Some(TestCreatures[1].name)

-----------------------------------------------------------------------------
(* C4, as stated: while a field editor is active the hovered creature's     *)
(* stored field under edit equals its pre-edit value.                       *)
C4_StoredFieldIsPreEdit ==
    mode.tag \in EditModes /\ IsSome(hovered_creature) =>
        FieldUnderEdit(mode.tag, hovered_creature[1]) = pre_edit[1]

(* C4, amended: while Rename, SetHealth or SetInitiative is active the      *)
(* pre-edit value is the snapshot the mode carries (the stored field itself *)
(* follows the edit keys); while HealthShift or EditNotes is active the     *)
(* stored health or notes equal their pre-edit value, the edit keys         *)
(* changing only the pending shift or the text editor.                      *)
C4_SnapshotIsPreEdit ==
    /\ mode.tag \in {"Rename", "SetHealth", "SetInitiative"} =>
           IsSome(pre_edit) /\ mode.old = pre_edit[1]
    /\ mode.tag \in {"HealthShift", "EditNotes"} =>
           /\ IsSome(pre_edit) /\ IsSome(hovered_creature)
           /\ FieldUnderEdit(mode.tag, hovered_creature[1]) = pre_edit[1]

(* HealthShift with digits typed: the health is still the pre-edit health. *)
C4_Witness ==
    /\ mode.tag = "HealthShift"
    /\ edited
    /\ hovered_creature[1].health_shift = Some(HealthShift("Increase", 11))
    /\ hovered_creature[1].health = 5

-----------------------------------------------------------------------------
(* C5: a creature has a pending health shift if and only if the mode is     *)
(* HealthShift and that creature is the hovered one.                        *)
C5_PendingShiftOnlyInHealthShift ==
    \A i \in 1..Len(creatures) :
        IsSome(creatures[i].health_shift)
            <=> (mode.tag = "HealthShift" /\ selected_creature = Some(i - 1))

(* A shift was confirmed on a duplicated roster: nothing is pending any more. *)
C5_Witness ==
    /\ LastWas("HealthShift", Key("Enter"))
    /\ mode.tag = "Normal"
    /\ Len(creatures) = 4
    /\ edited

-----------------------------------------------------------------------------
(* C6: the delete key in Normal with index i hovered in a roster of length  *)
(* n removes exactly that entry and keeps the others in order; if n > 1 the *)
(* selection becomes min(i, n-2), and if n = 1 the selection becomes none   *)
(* and the text editor is reset to empty.                                   *)
C6_DeleteRemovesHovered ==
    [][ Pressed("Normal", Char(Ord["d"])) /\ IsSome(hovered_creature) =>
            LET i == selected_creature[1]
                n == Len(creatures)
            IN  /\ Len(creatures') = n - 1
                /\ \A k \in 1..(n - 1) :
                       creatures'[k] = IF k <= i THEN creatures[k] ELSE creatures[k + 1]
                /\ n > 1 => selected_creature' = Some(Min(i, n - 2))
                /\ n = 1 => /\ selected_creature' = None
                            /\ text_area' = [lines |-> << <<>> >>, cursor |-> <<0, 0>>]
                /\ mode'.tag = "Normal" ]_vars

(* The last of the three demonstration creatures was deleted: n = 3, i = 2. *)
C6_Witness ==
    /\ LastWas("Normal", Char(Ord["d"]))
    /\ creatures = SubSeq(TestCreatures, 1, 2)
    /\ selected_creature = Some(1)

-----------------------------------------------------------------------------
(* C7: in Normal with an empty roster the navigation keys, the delete key   *)
(* and the duplicate key leave roster, selection and mode as they were.     *)
C7_EmptyRosterKeysAreNoOps ==
    [][ creatures = <<>> /\ (\E c \in {"K", "J", "j", "k", "d", "c"} :
                                 Pressed("Normal", Char(Ord[c])))
            => UNCHANGED <<creatures, selected_creature, mode>> ]_vars

-----------------------------------------------------------------------------
(* C8: a sort by any axis key keeps the creatures that are equal on the     *)
(* sort field in their prior relative order, in both directions, and the    *)
(* same sort applied to its result changes nothing.                         *)
SortField(axis, c) ==
    IF axis \in {Ord["i"], Ord["I"]} THEN c.initiative
    ELSE IF axis \in {Ord["h"], Ord["H"]} THEN c.health
    ELSE c.name

(* The creatures of roster v whose sort field equals that of x, in order. *)
Ties(v, axis, x) == SelectSeq(v, LAMBDA c : SortField(axis, c) = SortField(axis, x))

C8_SortStableIdempotent ==
    [][ \A axis \in SortAxes :
            Pressed("Sort", Char(axis)) =>
                /\ \A k \in 1..Len(creatures) :
                       Ties(creatures', axis, creatures[k]) = Ties(creatures, axis, creatures[k])
                /\ sort_by(creatures', axis) = creatures' ]_vars

(* Health descending on the demonstration roster: Chodlin stays before Boblin. *)
C8_Witness ==
    /\ LastWas("Sort", Char(Ord["H"]))
    /\ creatures = TestCreatures
    /\ keys = 2

-----------------------------------------------------------------------------
(* C9: when the notes key moves Normal to EditNotes, the text editor's      *)
(* lines and cursor are the hovered creature's stored notes and cursor.     *)
C9_NotesEditorSeeded ==
    LastWas("Normal", Char(Ord["n"])) /\ mode.tag = "EditNotes" =>
        /\ join(text_area.lines) = hovered_creature[1].notes
        /\ text_area.cursor = hovered_creature[1].notes_cursor_pos

-----------------------------------------------------------------------------
(* C10: the add key in Normal appends one creature with empty name, zero    *)
(* health and initiative and empty notes, leaves the earlier entries as     *)
(* they were, selects the new last index and enters Rename with an empty    *)
(* snapshot; the cancel key pressed right after leaves the roster and the   *)
(* selection as they are, the new creature's name empty, the mode Normal.   *)
C10_AddAppendsAndRenames ==
    [][ /\ Pressed("Normal", Char(Ord["a"])) =>
            /\ Len(creatures') = Len(creatures) + 1
            /\ SubSeq(creatures', 1, Len(creatures)) = creatures
            /\ LET c == creatures'[Len(creatures')]
               IN  /\ c.name = <<>> /\ c.notes = <<>>
                   /\ c.health = 0 /\ c.initiative = 0
            /\ selected_creature' = Some(Len(creatures))
            /\ mode'.tag = "Rename" /\ mode'.old = <<>>
        /\ LastWas("Normal", Char(Ord["a"])) /\ Pressed("Rename", Key("Esc")) =>
            /\ creatures' = creatures
            /\ selected_creature' = selected_creature
            /\ creatures'[Len(creatures')].name = <<>>
            /\ mode'.tag = "Normal" ]_vars

(* Add on the initially empty roster, then cancel: one creature, selected. *)
C10_Witness ==
    /\ LastWas("Rename", Key("Esc"))
    /\ keys = 2
    /\ creatures = <<DefaultCreature>>
    /\ selected_creature = Some(0)
    /\ mode.tag = "Normal"

-----------------------------------------------------------------------------
(* C11: confirming a HealthShift (Enter) sets the hovered creature's health *)
(* to base + magnitude for an increase and to base - magnitude for a        *)
(* decrease, base being the health when the mode was entered, and clears    *)
(* the pending shift; while the mode is active, and after a cancel, the     *)
(* health equals base.  The sum is the integer sum: the health, an i32,     *)
(* can only equal it when it fits the i32 range.                            *)
C11_ShiftConfirmApplies ==
    /\ [](mode.tag = "HealthShift" \/ LastWas("HealthShift", Key("Esc"))
              => hovered_creature[1].health = pre_edit[1])
    /\ [][ Pressed("HealthShift", Key("Enter")) =>
               LET base == pre_edit[1]
                   shift == hovered_creature[1].health_shift[1]
                   after == creatures'[selected_creature[1] + 1]
               IN  /\ panicked' = "no"
                   /\ mode'.tag = "Normal"
                   /\ after.health_shift = None
                   /\ IF shift.dir = "Increase"
                      THEN ~add_overflows(base, shift.mag) /\ after.health = base + shift.mag
                      ELSE ~sub_overflows(base, shift.mag) /\ after.health = base - shift.mag
          ]_vars

-----------------------------------------------------------------------------
(* C12: in SetHealth or SetInitiative, after Enter, the re-entry of the     *)
(* same mode on the same creature right after it, and Esc with no edit key  *)
(* in between, the field equals the value it had when Enter was pressed,    *)
(* and the mode is Normal.                                                  *)
C12_ConfirmReenterCancel ==
    \A tag \in {"SetHealth", "SetInitiative"} :
        LastWas(tag, Key("Esc")) /\ IsSome(confirmed) =>
            /\ confirmed[1].mode = tag
            /\ mode.tag = "Normal"
            /\ ~edited
            /\ IsSome(hovered_creature)
            /\ FieldUnderEdit(tag, hovered_creature[1]) = confirmed[1].value

(* Goblin's health typed to 51 and confirmed, SetHealth re-entered and cancelled. *)
C12_Witness ==
    /\ LastWas("SetHealth", Key("Esc"))
    /\ confirmed = Some([mode |-> "SetHealth", value |-> 51])
    /\ hovered_creature[1].health = 51

-----------------------------------------------------------------------------
(* C13: running becomes false only by an Enter press in ConfirmQuit (Meta)  *)
(* with the quit option (1) selected: by no key in another mode, and by no  *)
(* single key from Normal; once it is false no event changes the state.     *)
C13_OnlyConfirmQuitStops ==
    [][ /\ running /\ ~running' =>
               /\ mode.tag = "Meta" /\ mode.selection = 1
               /\ Pressed("Meta", Key("Enter"))
        /\ mode.tag = "Normal" => running'
        /\ ~running => UNCHANGED <<mode, selected_creature, creatures, text_area>> ]_vars

(* Esc, a toggle and Enter: the process has stopped in ConfirmQuit. *)
C13_Witness ==
    /\ ~running
    /\ LastWas("Meta", Key("Enter"))
    /\ mode.tag = "Meta" /\ mode.selection = 1

-----------------------------------------------------------------------------
(* C14: in Normal on a non-empty roster of length len with selection s, the *)
(* first key (K) selects 0, the last key (J) len-1, the next key (j)        *)
(* (s+1) mod len, the previous key (k) s-1, or len-1 when s = 0; roster and *)
(* mode stay as they were.                                                  *)
C14_NavigationSelects ==
    [][ \A c \in {"K", "J", "j", "k"} :
            creatures # <<>> /\ Pressed("Normal", Char(Ord[c])) =>
                LET len == Len(creatures)
                    s == selected_creature[1]
                IN  /\ IsSome(selected_creature)
                    /\ selected_creature' =
                           Some(IF c = "K" THEN 0
                                ELSE IF c = "J" THEN len - 1
                                ELSE IF c = "j" THEN (s + 1) % len
                                ELSE IF s = 0 THEN len - 1 ELSE s - 1)
                    /\ creatures' = creatures
                    /\ mode' = mode ]_vars

(* The previous key on the first of the three demonstration creatures wraps *)
(* to the last one.                                                         *)
C14_Witness ==
    /\ LastWas("Normal", Char(Ord["k"]))
    /\ keys = 1
    /\ Len(creatures) = 3
    /\ selected_creature = Some(2)

-----------------------------------------------------------------------------
(* C15: an axis key pressed in Sort returns to Normal with the roster a     *)
(* permutation of the prior roster (same creatures, same length, no field   *)
(* changed), non-decreasing in the chosen field (initiative, health, name)  *)
(* for the lowercase key and non-increasing for the uppercase key; a key    *)
(* other than the six axis keys and Esc leaves mode Sort and the roster as  *)
(* they were.                                                               *)
Count(v, x) == Cardinality({k \in 1..Len(v) : v[k] = x})

(* x is not after y in the order of the axis key's field. *)
FieldLeq(axis, x, y) ==
    IF axis \in {Ord["i"], Ord["I"]} THEN x.initiative <= y.initiative
    ELSE IF axis \in {Ord["h"], Ord["H"]} THEN x.health <= y.health
    ELSE cmp_str(x.name, y.name) # "Greater"

Lowercase(axis) == axis \in {Ord["i"], Ord["h"], Ord["n"]}

C15_SortOrdersPermutation ==
    [][ /\ \A axis \in SortAxes :
               Pressed("Sort", Char(axis)) =>
                   /\ mode'.tag = "Normal"
                   /\ Len(creatures') = Len(creatures)
                   /\ \A k \in 1..Len(creatures) :
                          Count(creatures', creatures[k]) = Count(creatures, creatures[k])
                   /\ \A k \in 1..(Len(creatures') - 1) :
                          IF Lowercase(axis)
                          THEN FieldLeq(axis, creatures'[k], creatures'[k + 1])
                          ELSE FieldLeq(axis, creatures'[k + 1], creatures'[k])
        /\ mode.tag = "Sort"
               /\ ~(\E ev \in {Char(axis) : axis \in SortAxes} \cup {Key("Esc")} :
                        Pressed("Sort", ev))
               => mode'.tag = "Sort" /\ creatures' = creatures ]_vars

(* The demonstration roster sorted by name: Boblin, Chodlin, Goblin. *)
C15_Witness ==
    /\ LastWas("Sort", Char(Ord["n"]))
    /\ keys = 2
    /\ mode.tag = "Normal"
    /\ creatures = <<TestCreatures[3], TestCreatures[2], TestCreatures[1]>>

-----------------------------------------------------------------------------
(* C16: in a numeric edit mode, a digit pressed when the decimal string of  *)
(* the current value with the digit appended does not fit an i32 sets the   *)
(* field to 0: the key is not rejected, the old value does not stay, and    *)
(* nothing panics.                                                          *)
NumericModes == {"SetHealth", "SetInitiative", "HealthShift"}

(* The value the numeric editor of mode tag edits on creature c. *)
ValueUnderEdit(tag, c) ==
    IF tag = "HealthShift" THEN c.health_shift[1].mag ELSE FieldUnderEdit(tag, c)

(* The number written as the decimal string of v followed by the digit d    *)
(* (10v + d, or 10v - d below zero) lies in the i32 range.                  *)
AppendFits(v, d) ==
    IF v >= 0 THEN v <= (I32_MAX - d) \div 10
    ELSE /\ v # I32_MIN
         /\ -v <= (I32_MAX - (IF d = 0 THEN 0 ELSE d - 1)) \div 10

C16_OverflowingDigitResets ==
    [][ \A tag \in NumericModes : \A d \in 0..9 :
            /\ Pressed(tag, Char(Ord["0"] + d))
            /\ ~AppendFits(ValueUnderEdit(tag, hovered_creature[1]), d)
            => /\ ValueUnderEdit(tag, creatures'[selected_creature[1] + 1]) = 0
               /\ panicked' = "no"
               /\ mode' = mode ]_vars

(* 8 typed after 214748364 in SetHealth: 2147483648 does not fit, health is 0. *)
C16_Witness ==
    /\ LastWas("SetHealth", Char(Ord["0"] + 8))
    /\ keys = 2
    /\ pre_edit = Some(214748364)
    /\ hovered_creature[1].health = 0

-----------------------------------------------------------------------------
(* C17: in a numeric edit mode a digit d typed on a value v >= 0, 10v + d   *)
(* being in range, gives 10v + d, so that from 0 the digits d1..dk give the *)
(* value written d1..dk (1, 2, 3 gives 123); a backspace gives the value    *)
(* whose decimal string is the current one without its last character, and  *)
(* 0 when that leaves an empty or unparsable string (from 5, from -5).      *)
WithoutLastDigit(v) ==
    IF v >= 0 THEN v \div 10
    ELSE IF v = I32_MIN THEN -(I32_MAX \div 10)
    ELSE -((-v) \div 10)

C17_DigitsAndBackspace ==
    [][ \A tag \in NumericModes :
            LET v == ValueUnderEdit(tag, hovered_creature[1])
                after == ValueUnderEdit(tag, creatures'[selected_creature[1] + 1])
            IN  /\ \A d \in 0..9 :
                       Pressed(tag, Char(Ord["0"] + d)) /\ v >= 0 /\ AppendFits(v, d)
                           => after = 10 * v + d
                /\ Pressed(tag, Key("Backspace")) => after = WithoutLastDigit(v) ]_vars

(* 1, 2, 3 typed in SetHealth on a health of 0: the health is 123. *)
C17_Witness ==
    /\ LastWas("SetHealth", Char(Ord["0"] + 3))
    /\ keys = 4
    /\ pre_edit = Some(0)
    /\ hovered_creature[1].health = 123

-----------------------------------------------------------------------------
-----------------------------------------------------------------------------
(* C19: the duplicate key in Normal with index i hovered inserts at index   *)
(* i+1 a creature equal to the hovered one in every field, makes the roster *)
(* exactly one longer, keeps the other creatures in their order, and leaves *)
(* the selection at i and the mode Normal.                                  *)
C19_DuplicateInsertsAfter ==
    [][ Pressed("Normal", Char(Ord["c"])) /\ IsSome(hovered_creature) =>
            LET i == selected_creature[1]
                n == Len(creatures)
            IN  /\ Len(creatures') = n + 1
                /\ creatures'[i + 2] = hovered_creature[1]
                /\ \A k \in 1..(n + 1) :
                       k # i + 2 => creatures'[k] = creatures[IF k <= i + 1 THEN k ELSE k - 1]
                /\ selected_creature' = Some(i)
                /\ mode' = Normal ]_vars

(* Goblin duplicated on the demonstration roster: Goblin, Goblin, Chodlin, Boblin. *)
C19_Witness ==
    /\ LastWas("Normal", Char(Ord["c"]))
    /\ keys = 1
    /\ creatures = <<TestCreatures[1]>> \o TestCreatures
    /\ selected_creature = Some(0)

-----------------------------------------------------------------------------
(* C20: ConfirmQuit (Meta) is always entered with the resume option (0)     *)
(* selected, its option is always 0 (resume) or 1 (quit), each toggle key   *)
(* (j, k) flips it to the other one, and Enter on resume returns to Normal  *)
(* with roster and selection unchanged and the process running.             *)
C20_ConfirmQuitOptions ==
    [][ /\ mode.tag # "Meta" /\ mode'.tag = "Meta" => mode'.selection = 0
        /\ mode'.tag = "Meta" => mode'.selection \in {0, 1}
        /\ \A c \in {"j", "k"} :
               Pressed("Meta", Char(Ord[c])) =>
                   /\ mode'.tag = "Meta"
                   /\ mode'.selection \in {0, 1}
                   /\ mode'.selection # mode.selection
        /\ Pressed("Meta", Key("Enter")) /\ mode.selection = 0 =>
               /\ mode' = Normal
               /\ creatures' = creatures
               /\ selected_creature' = selected_creature
               /\ running' ]_vars

(* Esc, two toggles and Enter on resume: back in Normal, still running. *)
C20_Witness ==
    /\ LastWas("Meta", Key("Enter"))
    /\ keys = 4
    /\ mode.tag = "Normal"
    /\ running

-----------------------------------------------------------------------------
(* C21: a key event whose kind is not Press (a release, a repeat) leaves    *)
(* mode, roster, selection and the running flag as they were in every mode, *)
(* and only in EditNotes does such an event reach the text editor: a step   *)
(* that changes one of the four, or that changes the text editor outside    *)
(* EditNotes, handles a Press.                                              *)
HandlesPress == keys' = keys + 1 /\ last_key'[1].ev.kind = "Press"

C21_NonPressChangesNothing ==
    [][ /\ keys' = keys + 1 /\ last_key'[1].ev.kind # "Press" =>
               /\ mode.tag = "EditNotes"
               /\ UNCHANGED <<mode, creatures, selected_creature, running>>
        /\ ~UNCHANGED <<mode, creatures, selected_creature, running>> => HandlesPress
        /\ mode.tag # "EditNotes" /\ text_area' # text_area => HandlesPress ]_vars

(* A repeated x reached the notes editor of the first demonstration creature. *)
C21_Witness ==
    /\ LastWas("EditNotes", OfKind("Repeat", Char(Ord["x"])))
    /\ keys = 2
    /\ mode.tag = "EditNotes"
    /\ text_area.lines = << <<Ord["x"]>> >>
    /\ creatures = TestCreatures

-----------------------------------------------------------------------------
(* C22: confirming a HealthShift never overflows: for every reachable base  *)
(* health and every magnitude that can be entered, base + magnitude and     *)
(* base - magnitude lie in the i32 range, so that the commit neither panics *)
(* nor wraps.                                                               *)
C22_ShiftNeverOverflows ==
    /\ [](panicked # "overflow")
    /\ [][ Pressed("HealthShift", Key("Enter")) => ~shift_overflows(hovered_creature[1]) ]_vars

-----------------------------------------------------------------------------
(* C23: in every reachable state with a non-empty roster the selection is   *)
(* present and is an index in 0..len-1, whatever adds, duplicates, deletes, *)
(* sorts, navigation and edits led there.                                   *)
C23_NonEmptyRosterHasHovered ==
    creatures # <<>> => SelectionValid /\ IsSome(hovered_creature)

(* A navigation key on the empty roster, an add, its name confirmed, a       *)
(* duplicate and the last key: two creatures, the second one hovered.        *)
C23_Witness ==
    /\ LastWas("Normal", Char(Ord["J"]))
    /\ keys >= 4
    /\ creatures = <<DefaultCreature, DefaultCreature>>
    /\ selected_creature = Some(1)

-----------------------------------------------------------------------------
(* C24: a key event handled in Rename, SetHealth, SetInitiative,            *)
(* HealthShift, EditNotes, Help or ConfirmQuit (Meta) leaves the roster's   *)
(* length and order, the selection and every field of every creature that   *)
(* is not hovered as they were; of the hovered creature only the field      *)
(* under edit may change: the name in Rename, the health in SetHealth, the  *)
(* initiative in SetInitiative, the pending shift (and the health on        *)
(* confirm) in HealthShift, the notes and their cursor on leaving           *)
(* EditNotes.                                                               *)
CreatureFields == {"name", "health", "health_shift", "initiative", "notes", "notes_cursor_pos"}

NonNormalModes == {"Rename", "SetHealth", "SetInitiative", "HealthShift", "EditNotes",
                   "Help", "Meta"}

(* The fields of the hovered creature a step taken in mode tag may change. *)
MayChange(tag) ==
    IF tag = "Rename" THEN {"name"}
    ELSE IF tag = "SetHealth" THEN {"health"}
    ELSE IF tag = "SetInitiative" THEN {"initiative"}
    ELSE IF tag = "HealthShift"
    THEN {"health_shift"}
             \cup (IF Pressed("HealthShift", Key("Enter")) THEN {"health"} ELSE {})
    ELSE IF tag = "EditNotes" /\ mode'.tag # "EditNotes" THEN {"notes", "notes_cursor_pos"}
    ELSE {}

C24_EditsTouchOnlyTheirField ==
    [][ mode.tag \in NonNormalModes =>
            /\ Len(creatures') = Len(creatures)
            /\ selected_creature' = selected_creature
            /\ \A k \in 1..Len(creatures) : \A f \in CreatureFields :
                   creatures'[k][f] # creatures[k][f] =>
                       selected_creature = Some(k - 1) /\ f \in MayChange(mode.tag) ]_vars

(* An increase by 1 confirmed on the second demonstration creature: only *)
(* its health has changed.                                               *)
C24_Witness ==
    /\ LastWas("HealthShift", Key("Enter"))
    /\ keys = 4
    /\ selected_creature = Some(1)
    /\ creatures = [TestCreatures EXCEPT ![2].health = 5]

-----------------------------------------------------------------------------
(* C25: from every mode other than Normal (ConfirmQuit with either option,  *)
(* Rename, EditNotes, SetHealth, SetInitiative, HealthShift, Sort, Help) a  *)
(* single Esc press leads to Normal with the process still running: in      *)
(* every state in which the process reads events that press is handled and  *)
(* ends in Normal.                                                          *)
PressEsc ==
    \/ MetaKey(Key("Esc"))
    \/ HelpKey(Key("Esc"))
    \/ SortKey(Key("Esc"))
    \/ RenameKey(Key("Esc"))
    \/ EditNotesKey(Key("Esc"))
    \/ SetHealthKey(Key("Esc"))
    \/ SetInitiativeKey(Key("Esc"))
    \/ HealthShiftKey(Key("Esc"))

C25_EscLeadsToNormal ==
    /\ [](Reads /\ mode.tag # "Normal" =>
              ENABLED (PressEsc /\ mode'.tag = "Normal" /\ running' /\ panicked' = "no"))
    /\ [][ \A tag \in NonNormalModes \cup {"Sort"} :
               Pressed(tag, Key("Esc")) =>
                   mode'.tag = "Normal" /\ running' /\ panicked' = "no" ]_vars

(* Help opened and left by Esc. *)
C25_Witness ==
    /\ LastWas("Help", Key("Esc"))
    /\ keys = 2
    /\ mode.tag = "Normal"
    /\ running

====
